---- MODULE Spec2Model ----
(***************************************************************************)
(* Model of hyperglass/execution/construct.py: class Construct, which      *)
(* turns a validated query into CLI command strings ("scrape" transport)   *)
(* or JSON payloads ("rest" transport).                                    *)
(*                                                                         *)
(* Conventions.                                                            *)
(*  - Python None is None, and a value that may be None is held as         *)
(*    Some(v).                                                             *)
(*  - A Python str is a "text": a sequence of string chunks standing for   *)
(*    their concatenation.  A query target is a text of one-character      *)
(*    chunks, so that re.sub works on its characters.                      *)
(*  - A call either returns, Return(v), or raises, Raise(e).               *)
(***************************************************************************)
EXTENDS Integers, Sequences, FiniteSets, TLC

VARIABLES
    commands,       \* the module global 'commands' (the template catalog)
    args,           \* the arguments the caller gave Construct (None before)
    pc,             \* "start", "constructed", "raised", "returned", "static"
    self,           \* the Construct instance (None before __init__ ran)
    called,         \* the method invoked on the instance ("" before)
    query,          \* the list the method returned (<<>> before)
    error,          \* the exception that escaped (NoError when none)
    cmd_type_call   \* a direct call of the static get_cmd_type: its arguments and result

vars == <<commands, args, pc, self, called, query, error, cmd_type_call>>

None    == [some |-> FALSE]
Some(v) == [some |-> TRUE, v |-> v]

Return(v) == [ok |-> TRUE, v |-> v]
Raise(e)  == [ok |-> FALSE, e |-> e]

NoError == [exc |-> "", site |-> "", keywords |-> <<>>]

\* raise HyperglassError(message=..., alert="danger", keywords=[self.query_vrf])
HyperglassError(kw) ==
    [exc |-> "HyperglassError", site |-> "get_device_vrf", keywords |-> kw]

\* The AttributeError Python raises on an attribute access that fails; site is
\* the expression that failed.
AttributeError(site) == [exc |-> "AttributeError", site |-> site, keywords |-> <<>>]

\* The ValueError ipaddress.ip_network raises on a string that is no network.
ValueError(site) == [exc |-> "ValueError", site |-> site, keywords |-> <<>>]

(***************************************************************************)
(* Bounds and input data                                                   *)
(***************************************************************************)
MaxVrfs == 2

Nos == {"cisco_ios", "huawei"}

\* hyperglass.constants.target_format_space
target_format_space == {"huawei", "huawei_vrpv8"}

QueryTypes == {"ping", "traceroute", "bgp_route", "bgp_community", "bgp_aspath"}

Transports == {"rest", "scrape", "grpc"}

VrfNames == {"default", "CUSTOMER-A"}

QueryVrfs == VrfNames \cup {"CUSTOMER-B"}

Target4Addr == <<"1","9","2",".","0",".","2",".","1">>
Target4Net  == <<"1","9","2",".","0",".","2",".","0","/","2","4">>
Target6Net  == <<"2","0","0","1",":","d","b","8",":",":","/","3","2">>
TargetCommunity == <<"6","5","0","0","0",":","1","0","0">>
TargetAsPath    == <<"_","6","5","0","0","0","$">>

\* The targets the validation stage lets through for each query type.
ValidTargets(query_type) ==
    CASE query_type \in {"ping", "traceroute", "bgp_route"}
                                      -> {Target4Addr, Target4Net, Target6Net}
      [] query_type = "bgp_community" -> {TargetCommunity}
      [] query_type = "bgp_aspath"    -> {TargetAsPath}

\* An ipaddress.IPv4Address / IPv6Address object.
Address(version, compressed) == [version |-> version, compressed |-> compressed]

\* An address-family sub-record of a VRF.
Afi(vrf_name, source_address) ==
    [vrf_name |-> vrf_name, source_address |-> source_address]

\* A VRF record; keys is the order in which its dict() lists the fields.
Vrf(name, ipv4, ipv6, keys) ==
    [name |-> name, ipv4 |-> ipv4, ipv6 |-> ipv6, keys |-> keys]

VrfPool ==
    UNION { { Vrf(n, Some(Afi(n \o "-a4", Some(Address(4, "192.0.2.1")))),
                     Some(Afi(n \o "-a6", Some(Address(6, "2001:db8::1")))),
                     <<"name", "ipv4", "ipv6">>),
              Vrf(n, Some(Afi(n \o "-b4", Some(Address(4, "192.0.2.2")))),
                     Some(Afi(n \o "-b6", Some(Address(6, "2001:db8::2")))),
                     <<"name", "ipv6", "ipv4">>),
              Vrf(n, Some(Afi(n \o "-c4", None)), None,
                     <<"name", "ipv4", "ipv6">>),
              Vrf(n, None, Some(Afi(n \o "-d6", Some(Address(6, "2001:db8::4")))),
                     <<"name", "ipv4", "ipv6">>) } : n \in VrfNames }

VrfLists == UNION { [1..n -> VrfPool] : n \in 0..MaxVrfs }

\* A device: its NOS, the name of its command set, its ordered VRF records.
Devices ==
    [nos : Nos, commands : Nos, vrfs : VrfLists]

QueryData ==
    UNION { [query_type : {qt}, query_target : ValidTargets(qt), query_vrf : QueryVrfs]
            : qt \in QueryTypes }

CmdTypes == {"ipv4_default", "ipv4_vpn", "ipv6_default", "ipv6_vpn"}

AllKeys == Nos \X CmdTypes \X QueryTypes

\* The template registered under a key: every placeholder occurs in it.
TemplateOf(nos, cmd_type, query_type) ==
    << nos \o " " \o query_type \o " " \o cmd_type \o " vrf ", "{vrf}",
       " ", "{target}", " source ", "{source}" >>

\* The catalogs tried: the full one, and the full one without the templates of
\* one address family of one command set.
Catalogs ==
    {AllKeys} \cup
    { {k \in AllKeys : ~(k[1] = h[1] /\ k[2] \in {h[2] \o "_default", h[2] \o "_vpn"})}
      : h \in {<<"cisco_ios", "ipv6">>, <<"huawei", "ipv4">>} }

(***************************************************************************)
(* Construct                                                               *)
(***************************************************************************)

\* Lines 33-36: the loop over self.device.vrfs, from index i on.
RECURSIVE MatchVrfs(_, _, _, _)
MatchVrfs(vrfs, query_vrf, i, _device_vrf) ==
    IF i > Len(vrfs) THEN _device_vrf
    ELSE MatchVrfs(vrfs, query_vrf, i + 1,
                   IF vrfs[i].name = query_vrf THEN Some(vrfs[i]) ELSE _device_vrf)

\* get_device_vrf with a break after the first match.
get_device_vrf_first_match(device, query_vrf) ==
    LET hits == {i \in 1..Len(device.vrfs) : device.vrfs[i].name = query_vrf} IN
    IF hits = {}
    THEN Raise(HyperglassError(<<query_vrf>>))
    ELSE Return(device.vrfs[CHOOSE i \in hits : \A j \in hits : i <= j])

\* get_device_vrf that falls back on the first configured VRF.
get_device_vrf_defaulting(device, query_vrf) ==
    LET _device_vrf == MatchVrfs(device.vrfs, query_vrf, 1, None) IN
    IF _device_vrf.some THEN Return(_device_vrf.v)
    ELSE IF Len(device.vrfs) > 0 THEN Return(device.vrfs[1])
    ELSE Raise(HyperglassError(<<query_vrf>>))

get_device_vrf(device, query_vrf) ==
    LET _device_vrf == MatchVrfs(device.vrfs, query_vrf, 1, None) IN
    IF ~_device_vrf.some
    THEN Raise(HyperglassError(<<query_vrf>>))
    ELSE Return(_device_vrf.v)

\* __init__: the instance, or the exception of get_device_vrf.
NewConstruct(device, query_data, transport) ==
    LET device_vrf == get_device_vrf(device, query_data.query_vrf) IN
    IF device_vrf.ok
    THEN Return([device       |-> device,
                 query_data   |-> query_data,
                 transport    |-> transport,
                 query_target |-> query_data.query_target,
                 query_vrf    |-> query_data.query_vrf,
                 device_vrf   |-> device_vrf.v])
    ELSE device_vrf

(***************************************************************************)
(* Helpers of the methods                                                  *)
(***************************************************************************)

\* re.sub(r"\/", r" ", target): every "/" becomes a space.
ReSubSlash(target) ==
    [i \in 1..Len(target) |-> IF target[i] = "/" THEN " " ELSE target[i]]

\* format_target that never substitutes.
format_target_raw(device, target) == target

format_target(device, target) ==
    IF device.nos \in target_format_space
    THEN ReSubSlash(target)
    ELSE target

\* operator.attrgetter(f"{nos}.{afi}.{query_type}")(commands): the template, or
\* the AttributeError of the attribute path that does not exist.
device_commands(nos, afi, query_type) ==
    IF <<nos, afi, query_type>> \in commands
    THEN Return(TemplateOf(nos, afi, query_type))
    ELSE Raise(AttributeError("commands." \o nos \o "." \o afi \o "." \o query_type))

\* Python truthiness of an optional str: None and "" are false.
TruthyStr(s) == s.some /\ s.v # ""

\* get_cmd_type that tests only for the literal "default".
get_cmd_type_no_truth_test(query_protocol, query_vrf) ==
    IF query_vrf # Some("default")
    THEN query_protocol \o "_vpn"
    ELSE query_protocol \o "_default"

get_cmd_type(query_protocol, query_vrf) ==
    IF TruthyStr(query_vrf) /\ query_vrf.v # "default"
    THEN query_protocol \o "_vpn"
    ELSE query_protocol \o "_default"

\* ipaddress.ip_network(target).version on a validated address or prefix: the
\* IPv4 parser is tried first and takes digits, dots and a prefix length; the
\* IPv6 parser takes hexadecimal groups in the compressed form (one holding
\* "::").  0 stands for the ValueError of a string neither parser takes.
IpVersion(target) ==
    LET chars == {target[i] : i \in 1..Len(target)}
        digits == {"0","1","2","3","4","5","6","7","8","9"}
        hex == digits \cup {"a","b","c","d","e","f"}
    IN  IF chars \subseteq (digits \cup {".", "/"}) /\ "." \in chars THEN 4
        ELSE IF chars \subseteq (hex \cup {":", "/"})
                /\ \E i \in 1..(Len(target) - 1) : target[i] = ":" /\ target[i+1] = ":"
             THEN 6
        ELSE 0

\* getattr(self.device_vrf, query_protocol)
GetAttr(device_vrf, query_protocol) ==
    IF query_protocol = "ipv4" THEN device_vrf.ipv4 ELSE device_vrf.ipv6

\* json.dumps of a str value, and of None (null).
JsonStr(text) == [null |-> FALSE, str |-> text]
JsonNull      == [null |-> TRUE]

\* json.dumps of a dict: its items in insertion order.
JsonDumps(items) == [json |-> items]

\* json.dumps of an optional str.
JsonValue(s) == IF s.some THEN JsonStr(<<s.v>>) ELSE JsonNull

\* source_address.compressed read with a default of None.
CompressedOrNone(source_address) ==
    IF source_address.some THEN Return(Some(source_address.v.compressed))
    ELSE Return(None)

\* afi.source_address.compressed: the AttributeError of None when the
\* sub-record has no source address.
Compressed(source_address) ==
    IF source_address.some THEN Return(Some(source_address.v.compressed))
    ELSE Raise(AttributeError("afi.source_address.compressed"))

\* str() of what str.format is given for {source}: an address object or None.
StrSource(source_address) ==
    IF source_address.some THEN source_address.v.compressed ELSE "None"

\* cmd.format(target=..., source=..., vrf=...): the template with its
\* placeholders replaced.
RECURSIVE FormatFrom(_, _, _, _, _)
FormatFrom(cmd, i, target, source, vrf) ==
    IF i > Len(cmd) THEN <<>>
    ELSE (CASE cmd[i] = "{target}" -> target
            [] cmd[i] = "{source}" -> <<source>>
            [] cmd[i] = "{vrf}"    -> <<vrf>>
            [] OTHER               -> <<cmd[i]>>)
         \o FormatFrom(cmd, i + 1, target, source, vrf)

Format(cmd, target, source, vrf) == [cmd |-> FormatFrom(cmd, 1, target, source, vrf)]

(***************************************************************************)
(* The query methods.  Each returns Return(query) or Raise(exception).     *)
(***************************************************************************)

\* The body shared by lines 126-154 (ping) and 169-197 (traceroute), which
\* differ in the query type only; target is what the method embeds, which is
\* self.query_target in both.
PingLike(slf, query_type, target) ==
    LET version == IpVersion(slf.query_target) IN
    IF version = 0 THEN Raise(ValueError("ip_network")) ELSE
    LET query_protocol == "ipv" \o ToString(version)
        afi == GetAttr(slf.device_vrf, query_protocol)
        cmd_type == get_cmd_type(query_protocol, Some(slf.query_vrf))
    IN  IF slf.transport = "rest" THEN
            IF ~afi.some THEN Raise(AttributeError("afi.vrf_name"))
            ELSE LET source == Compressed(afi.v.source_address) IN
            IF ~source.ok THEN source
            ELSE Return(<< JsonDumps(<<
                    <<"query_type", JsonStr(<<query_type>>)>>,
                    <<"vrf", JsonStr(<<afi.v.vrf_name>>)>>,
                    <<"afi", JsonStr(<<cmd_type>>)>>,
                    <<"source", JsonValue(source.v)>>,
                    <<"target", JsonStr(target)>> >>) >>)
        ELSE IF slf.transport = "scrape" THEN
            LET cmd == device_commands(slf.device.commands, cmd_type, query_type) IN
            IF ~cmd.ok THEN cmd
            ELSE IF ~afi.some THEN Raise(AttributeError("afi.source_address"))
            ELSE Return(<< Format(cmd.v, target,
                                  StrSource(afi.v.source_address), afi.v.vrf_name) >>)
        ELSE Return(<<>>)

\* ping that passes the target through format_target.
ping_formatting(slf) ==
    PingLike(slf, "ping", format_target(slf.device, slf.query_target))

ping(slf) == PingLike(slf, "ping", slf.query_target)

traceroute(slf) == PingLike(slf, "traceroute", slf.query_target)

bgp_route(slf) ==
    LET version == IpVersion(slf.query_target) IN
    IF version = 0 THEN Raise(ValueError("ip_network")) ELSE
    LET query_protocol == "ipv" \o ToString(version)
        afi == GetAttr(slf.device_vrf, query_protocol)
        cmd_type == get_cmd_type(query_protocol, Some(slf.query_vrf))
    IN  IF slf.transport = "rest" THEN
            IF ~afi.some THEN Raise(AttributeError("afi.vrf_name"))
            ELSE Return(<< JsonDumps(<<
                    <<"query_type", JsonStr(<<"bgp_route">>)>>,
                    <<"vrf", JsonStr(<<afi.v.vrf_name>>)>>,
                    <<"afi", JsonStr(<<cmd_type>>)>>,
                    <<"source", JsonNull>>,
                    <<"target", JsonStr(format_target(slf.device, slf.query_target))>>
                    >>) >>)
        ELSE IF slf.transport = "scrape" THEN
            LET cmd == device_commands(slf.device.commands, cmd_type, "bgp_route") IN
            IF ~cmd.ok THEN cmd
            ELSE IF ~afi.some THEN Raise(AttributeError("afi.source_address"))
            ELSE Return(<< Format(cmd.v, format_target(slf.device, slf.query_target),
                                  StrSource(afi.v.source_address), afi.v.vrf_name) >>)
        ELSE Return(<<>>)

\* self.device_vrf.dict().items(): the fields in the record's own order.
DictItems(device_vrf) ==
    [i \in 1..Len(device_vrf.keys) |->
        <<device_vrf.keys[i],
          CASE device_vrf.keys[i] = "name" -> Some(device_vrf.name)
            [] device_vrf.keys[i] = "ipv4" -> device_vrf.ipv4
            [] device_vrf.keys[i] = "ipv6" -> device_vrf.ipv6>>]

\* Lines 253-259 / 305-311: the keys among ipv4 and ipv6 whose value is truthy,
\* in the order of the items, from item i on.
RECURSIVE AfisFrom(_, _)
AfisFrom(items, i) ==
    IF i > Len(items) THEN <<>>
    ELSE (IF items[i][1] \in {"ipv4", "ipv6"} /\ items[i][2].some
          THEN <<items[i][1]>> ELSE <<>>)
         \o AfisFrom(items, i + 1)

Afis(device_vrf) == AfisFrom(DictItems(device_vrf), 1)

\* Lines 261-286 / 313-336: the loop over afis from index i on, query being the
\* list built so far.
RECURSIVE FanOut(_, _, _, _, _)
FanOut(slf, query_type, afis, i, qry) ==
    IF i > Len(afis) THEN Return(qry) ELSE
    LET afi == afis[i]
        afi_attr == GetAttr(slf.device_vrf, afi)
        cmd_type == get_cmd_type(afi, Some(slf.query_vrf))
    IN  IF slf.transport = "rest" THEN
            IF ~afi_attr.some THEN Raise(AttributeError("afi_attr.vrf_name"))
            ELSE FanOut(slf, query_type, afis, i + 1, Append(qry, JsonDumps(<<
                    <<"query_type", JsonStr(<<query_type>>)>>,
                    <<"vrf", JsonStr(<<afi_attr.v.vrf_name>>)>>,
                    <<"afi", JsonStr(<<cmd_type>>)>>,
                    <<"target", JsonStr(slf.query_target)>>,
                    <<"source", JsonNull>> >>)))
        ELSE IF slf.transport = "scrape" THEN
            LET cmd == device_commands(slf.device.commands, cmd_type, query_type) IN
            IF ~cmd.ok THEN cmd
            ELSE IF ~afi_attr.some THEN Raise(AttributeError("afi_attr.source_address"))
            ELSE FanOut(slf, query_type, afis, i + 1, Append(qry,
                    Format(cmd.v, slf.query_target,
                           StrSource(afi_attr.v.source_address), afi_attr.v.vrf_name)))
        ELSE FanOut(slf, query_type, afis, i + 1, qry)

\* The fan-out that, when an address family fails, returns the artifacts of the
\* families before it.
FanOutPartial(slf, query_type) ==
    LET afis == Afis(slf.device_vrf)
        done == {n \in 0..Len(afis) : FanOut(slf, query_type, SubSeq(afis, 1, n), 1, <<>>).ok}
    IN  FanOut(slf, query_type, SubSeq(afis, 1, CHOOSE n \in done : \A m \in done : m <= n),
               1, <<>>)

bgp_community_partial(slf) == FanOutPartial(slf, "bgp_community")

bgp_community(slf) == FanOut(slf, "bgp_community", Afis(slf.device_vrf), 1, <<>>)

bgp_aspath(slf) == FanOut(slf, "bgp_aspath", Afis(slf.device_vrf), 1, <<>>)

(***************************************************************************)
(* The state machine: the caller constructs, then calls the method named   *)
(* by the query type; or calls the static get_cmd_type directly.           *)
(***************************************************************************)
NoCall == [afi |-> "", vrf |-> None, result |-> ""]

Init ==
    /\ commands \in Catalogs
    /\ args = None
    /\ pc = "start"
    /\ self = None
    /\ called = ""
    /\ query = <<>>
    /\ error = NoError
    /\ cmd_type_call = NoCall

\* Construct(device, query_data, transport)
Construct(device, query_data, transport) ==
    /\ pc = "start"
    /\ args' = Some([device |-> device, query_data |-> query_data, transport |-> transport])
    /\ LET r == NewConstruct(device, query_data, transport) IN
       IF r.ok
       THEN /\ self' = Some(r.v)
            /\ pc' = "constructed"
            /\ error' = NoError
       ELSE /\ self' = None
            /\ pc' = "raised"
            /\ error' = r.e
    /\ UNCHANGED <<commands, called, query, cmd_type_call>>

\* The effect of calling a method whose outcome is r.
Call(name, r) ==
    /\ called' = name
    /\ IF r.ok
       THEN /\ query' = r.v
            /\ pc' = "returned"
            /\ error' = NoError
       ELSE /\ query' = <<>>
            /\ pc' = "raised"
            /\ error' = r.e
    /\ UNCHANGED <<commands, args, self, cmd_type_call>>

Ping ==
    /\ pc = "constructed" /\ self.v.query_data.query_type = "ping"
    /\ Call("ping", ping(self.v))

Traceroute ==
    /\ pc = "constructed" /\ self.v.query_data.query_type = "traceroute"
    /\ Call("traceroute", traceroute(self.v))

BgpRoute ==
    /\ pc = "constructed" /\ self.v.query_data.query_type = "bgp_route"
    /\ Call("bgp_route", bgp_route(self.v))

BgpCommunity ==
    /\ pc = "constructed" /\ self.v.query_data.query_type = "bgp_community"
    /\ Call("bgp_community", bgp_community(self.v))

BgpAspath ==
    /\ pc = "constructed" /\ self.v.query_data.query_type = "bgp_aspath"
    /\ Call("bgp_aspath", bgp_aspath(self.v))

\* Construct.get_cmd_type(afi, vrf), called on the class.
GetCmdType(afi, vrf) ==
    /\ pc = "start"
    /\ cmd_type_call' = [afi |-> afi, vrf |-> vrf, result |-> get_cmd_type(afi, vrf)]
    /\ pc' = "static"
    /\ UNCHANGED <<commands, args, self, called, query, error>>

CmdTypeArgs == {None} \cup {Some(v) : v \in QueryVrfs \cup {""}}

\* The caller's first step: a new Construct for some device, query and transport.
New ==
    /\ pc = "start"
    /\ \E d \in Devices, q \in QueryData, t \in Transports : Construct(d, q, t)

\* The caller's first step, when it only derives a command type.
Static ==
    /\ pc = "start"
    /\ \E a \in {"ipv4", "ipv6"}, v \in CmdTypeArgs : GetCmdType(a, v)

Next ==
    \/ New
    \/ Ping
    \/ Traceroute
    \/ BgpRoute
    \/ BgpCommunity
    \/ BgpAspath
    \/ Static

Spec == Init /\ [][Next]_vars

(***************************************************************************)
(* What the claims read off a state                                        *)
(***************************************************************************)
Device     == args.v.device
Transport  == args.v.transport
QueryVrf   == args.v.query_data.query_vrf
QueryTarget == args.v.query_data.query_target

SingleTarget == {"ping", "traceroute", "bgp_route"}
Fanned       == {"bgp_community", "bgp_aspath"}

\* The indices of the device's VRF records named like the query's VRF.
Matches == {i \in 1..Len(Device.vrfs) : Device.vrfs[i].name = QueryVrf}

\* The address family of a validated address or prefix.
TargetFamily == IF QueryTarget \in {Target4Addr, Target4Net} THEN "ipv4" ELSE "ipv6"

\* The command-category of an address family under the query's VRF.
Category(family) ==
    IF QueryVrf \notin {"", "default"} THEN family \o "_vpn" ELSE family \o "_default"

\* The sub-record of an address family on a VRF record.
Sub(vrf, family) == IF family = "ipv4" THEN vrf.ipv4 ELSE vrf.ipv6

\* The address families populated on a VRF record, ipv4 first.
Populated(vrf) ==
    (IF vrf.ipv4.some THEN <<"ipv4">> ELSE <<>>) \o (IF vrf.ipv6.some THEN <<"ipv6">> ELSE <<>>)

IsJson(a) == "json" \in DOMAIN a

\* The value of a field of an API artifact.
JsonField(a, key) == a.json[CHOOSE i \in 1..Len(a.json) : a.json[i][1] = key][2]

\* What an artifact carries.  A CLI artifact is a rendered TemplateOf: the
\* command-category is in its first chunk, the vrf is its second chunk, the
\* source its last, and the target lies between " " and " source ".
ArtTarget(a) ==
    IF IsJson(a) THEN JsonField(a, "target").str ELSE SubSeq(a.cmd, 4, Len(a.cmd) - 2)
ArtVrf(a) ==
    IF IsJson(a) THEN JsonField(a, "vrf").str[1] ELSE a.cmd[2]
ArtCategoryIs(a, nos, query_type, category) ==
    IF IsJson(a)
    THEN JsonField(a, "afi") = JsonStr(<<category>>)
         /\ JsonField(a, "query_type") = JsonStr(<<query_type>>)
    ELSE a.cmd[1] = TemplateOf(nos, category, query_type)[1]

\* The artifact carries the vrf and the source of the sub-record sub; withSource
\* says whether an API artifact of this query type carries a source.
ArtOfSub(a, sub, withSource) ==
    /\ ArtVrf(a) = sub.vrf_name
    /\ IF IsJson(a)
       THEN JsonField(a, "source") =
                (IF withSource THEN JsonStr(<<sub.source_address.v.compressed>>)
                 ELSE JsonNull)
       ELSE a.cmd[Len(a.cmd)] =
                (IF sub.source_address.some THEN sub.source_address.v.compressed
                 ELSE "None")

IsVrfMismatch(e, vrf) == e.exc = "HyperglassError" /\ e.keywords = <<vrf>>

\* The failure of the template lookup under a command set.
IsTemplateNotFound(e, nos) ==
    e \in {AttributeError("commands." \o nos \o "." \o c \o "." \o q)
           : c \in CmdTypes, q \in QueryTypes}

\* The failure on the sub-record that is None.
IsAfiMismatch(e) ==
    e \in {AttributeError("afi.vrf_name"), AttributeError("afi.source_address")}

(***************************************************************************)
(* C1  Construction resolves a VRF record of the device named like         *)
(* query_vrf whenever one exists; otherwise it raises the VRF-mismatch     *)
(* error carrying query_vrf and no instance exists, so no method runs and  *)
(* no artifact is produced: the VRF is never defaulted.                    *)
(***************************************************************************)
C1_VrfResolvedOrMismatch ==
    args.some =>
        IF Matches # {}
        THEN /\ self.some
             /\ self.v.device_vrf.name = QueryVrf
             /\ \E i \in Matches : Device.vrfs[i] = self.v.device_vrf
        ELSE /\ self = None
             /\ pc = "raised"
             /\ called = ""
             /\ IsVrfMismatch(error, QueryVrf)
             /\ query = <<>>

C1_Witness ==
    /\ args.some
    /\ Len(Device.vrfs) = MaxVrfs
    /\ Matches = {}
    /\ pc = "raised"

(***************************************************************************)
(* C2  ping, traceroute and bgp_route, under rest or scrape: when the      *)
(* target's address family has no sub-record on the resolved VRF, the      *)
(* method raises the family-mismatch error and returns nothing.            *)
(***************************************************************************)
C2_AfiMismatchRaised ==
    ( /\ called \in SingleTarget
      /\ Transport \in {"rest", "scrape"}
      /\ ~Sub(self.v.device_vrf, TargetFamily).some )
    => /\ pc = "raised"
       /\ IsAfiMismatch(error)
       /\ query = <<>>

\* The address families a method looks a template up for.
LookedUp ==
    IF called \in SingleTarget THEN <<TargetFamily>> ELSE Populated(self.v.device_vrf)

TemplateAbsent(nos) ==
    \E i \in 1..Len(LookedUp) : <<nos, Category(LookedUp[i]), called>> \notin commands

C4_EscapeInCliOnly ==
    (called = "bgp_route" /\ pc = "returned")
    => \A i \in 1..Len(query) :
           ArtTarget(query[i]) =
               (IF Transport = "scrape" /\ Device.nos \in target_format_space
                THEN ReSubSlash(QueryTarget)
                ELSE QueryTarget)

(***************************************************************************)
(* C5  bgp_community and bgp_aspath return one artifact per address        *)
(* family populated on the resolved VRF, ipv4 before ipv6 whatever the     *)
(* order of the record's fields.                                           *)
(***************************************************************************)
C5_OnePerFamilyIpv4First ==
    (called \in Fanned /\ pc = "returned")
    => LET families == Populated(self.v.device_vrf) IN
       /\ Len(query) = Len(families)
       /\ \A i \in 1..Len(query) :
              ArtCategoryIs(query[i], Device.commands, called, Category(families[i]))

(***************************************************************************)
(* C6  An API artifact of ping or traceroute has a non-null source, the    *)
(* source address of the target family's sub-record, and none is returned  *)
(* when that address is absent; an API artifact of bgp_route,              *)
(* bgp_community or bgp_aspath has a null source.                          *)
(***************************************************************************)
C6_ApiSource ==
    (called # "" /\ Transport = "rest")
    => /\ \A i \in 1..Len(query) :
            LET source == JsonField(query[i], "source") IN
            IF called \in {"ping", "traceroute"}
            THEN LET sub == Sub(self.v.device_vrf, TargetFamily) IN
                 /\ ~source.null
                 /\ sub.some /\ sub.v.source_address.some
                 /\ source.str = <<sub.v.source_address.v.compressed>>
            ELSE source = JsonNull
       /\ ( /\ called \in {"ping", "traceroute"}
            /\ Sub(self.v.device_vrf, TargetFamily).some
            /\ ~Sub(self.v.device_vrf, TargetFamily).v.source_address.some )
          => (pc = "raised" /\ query = <<>>)

C6_Witness ==
    /\ called = "traceroute"
    /\ Transport = "rest"
    /\ pc = "returned"
    /\ Len(query) = 1
    /\ ~JsonField(query[1], "source").null

C8_OneArtifactOfTargetFamily ==
    (called \in SingleTarget /\ pc = "returned")
    => /\ Len(query) = 1
       /\ Sub(self.v.device_vrf, TargetFamily).some
       /\ ArtCategoryIs(query[1], Device.commands, called, Category(TargetFamily))
       /\ ArtOfSub(query[1], Sub(self.v.device_vrf, TargetFamily).v,
                   called \in {"ping", "traceroute"})

(***************************************************************************)
(* C9  ping, traceroute, bgp_community and bgp_aspath: every artifact      *)
(* returned carries query_target as received, for every NOS and transport; *)
(* hence all artifacts of one call carry the same target.                  *)
(***************************************************************************)
C9_TargetAsReceived ==
    (called \in {"ping", "traceroute"} \cup Fanned /\ pc = "returned")
    => \A i \in 1..Len(query) : ArtTarget(query[i]) = QueryTarget

C9_Witness ==
    /\ called = "ping"
    /\ pc = "returned"
    /\ Transport = "scrape"
    /\ Device.nos \in target_format_space
    /\ QueryTarget = Target4Net
    /\ Len(query) = 1

\* The last record of the device named like the query's VRF.
LastMatch == Device.vrfs[CHOOSE i \in Matches : \A j \in Matches : j <= i]

(***************************************************************************)
(* C10  When several VRF records of the device are named like query_vrf,   *)
(* construction succeeds and resolves the last of them in list order, and  *)
(* every artifact returned afterwards carries the vrf and source of a      *)
(* sub-record of that last record.                                         *)
(***************************************************************************)
C10_LastMatchWins ==
    (args.some /\ Cardinality(Matches) >= 2)
    => /\ self.some
       /\ self.v.device_vrf = LastMatch
       /\ \A i \in 1..Len(query) :
              \E family \in {"ipv4", "ipv6"} :
                  /\ Sub(LastMatch, family).some
                  /\ ArtOfSub(query[i], Sub(LastMatch, family).v,
                              called \in {"ping", "traceroute"})

C10_Witness ==
    /\ args.some
    /\ Cardinality(Matches) >= 2
    /\ \E i \in Matches : Device.vrfs[i] # LastMatch
    /\ pc = "returned"
    /\ Len(query) = 2

====
